---- MODULE Spec2Model ----
(***************************************************************************)
(* Tile resolution, disk cache, concurrent fetch and merge of              *)
(* lib/cartopy/io/img_tiles.py (GoogleWTS and its providers).              *)
(*                                                                         *)
(* The specifications share the state:                                     *)
(*   Spec        provider instances are constructed and get_image is       *)
(*               called on them by one sequential caller;                  *)
(*   SpecDomain  one image_for_domain query: find_images, the futures of   *)
(*               the thread pool running get_image concurrently, the       *)
(*               as_completed loop;                                        *)
(*   SpecPool    the ThreadPoolExecutor of image_for_domain with its real  *)
(*               max_workers, work items counted instead of named;         *)
(*   SpecFind    one find_images generator (GoogleWTS or QuadtreeTiles)    *)
(*               walked one _find_images call at a time;                   *)
(*   SpecRestart find_images invoked repeatedly while get_image runs on    *)
(*               the same instance;                                        *)
(*   SpecQuadkey one conversion between a quadkey and a Cartesian tile     *)
(*               and the conversion of its result back;                    *)
(*   SpecBBox    the extents of one tile, of its subtiles and of its east  *)
(*               neighbour;                                                *)
(*   SpecMerge   one call of _merge_tiles on a list of subtiles of a tile. *)
(***************************************************************************)
EXTENDS Integers, Sequences, FiniteSets, TLC

VARIABLES
    inst,       \* provider instances: id -> [cls, style, cache_path, _default_cache, cache]
    dirs,       \* directories that exist
    disk,       \* files that exist: <<directory, filename>> -> content
    calls,      \* get_image invocations, in call (or submit) order
    qpc,        \* position of image_for_domain's calling thread
    domain,     \* target_domain of the query, a box <<x0, x1, y0, y1>>
    target_z,   \* target_z of the query
    collected,  \* futures whose result() the as_completed loop has taken
    tiles,      \* image_for_domain's list `tiles`
    result,     \* how image_for_domain ended: what it returned or raised
    nTiles,     \* SpecPool: number of tiles find_images yields
    submitted,  \* SpecPool: work items submitted
    started,    \* SpecPool: work items a worker has taken off the queue
    finished,   \* SpecPool: work items that have run to completion
    nthreads,   \* SpecPool: worker threads the executor has spawned
    idle,       \* SpecPool: the executor's idle semaphore
    fpc,        \* position of a find_images generator
    fexc,       \* the exception the generator raised
    fstart,     \* start_tile argument of the find_images invocation
    fstack,     \* tiles whose _find_images call is pending, innermost first
    starts,     \* QuadtreeTiles.find_images: start tiles not yet walked
    yielded,    \* what the generator has yielded so far
    runs,       \* what earlier invocations of the generator yielded
    conv,       \* a conversion between a quadkey and a Cartesian tile
    box,        \* a tile, its bounding box and those of its subtiles
    mrg         \* a call of _merge_tiles: its argument and what it returned

cacheVars == <<inst, dirs, disk, calls>>
queryVars == <<qpc, domain, target_z, collected, tiles, result>>
poolVars  == <<nTiles, submitted, started, finished, nthreads, idle>>
findVars  == <<fpc, fexc, fstart, fstack, starts, yielded, runs>>
vars      == <<inst, dirs, disk, calls, qpc, domain, target_z, collected, tiles,
               result, nTiles, submitted, started, finished, nthreads, idle,
               fpc, fexc, fstart, fstack, starts, yielded, runs, conv,
               box, mrg>>

(***************************************************************************)
(* Bounds of the model.                                                    *)
(***************************************************************************)
MaxCalls == 2      \* get_image calls made by the sequential caller of Spec
MaxZ     == 1      \* deepest zoom of a tile
MaxQueryTiles == 4 \* most tiles a query of SpecDomain fetches
MaxTiles == 26     \* most tiles a query of SpecPool submits

(***************************************************************************)
(* Strings.                                                                *)
(***************************************************************************)
Digit(d) ==
    CASE d = 0 -> "0" [] d = 1 -> "1" [] d = 2 -> "2" [] d = 3 -> "3"
      [] d = 4 -> "4" [] d = 5 -> "5" [] d = 6 -> "6" [] d = 7 -> "7"
      [] d = 8 -> "8" [] d = 9 -> "9"

RECURSIVE str(_)
str(n) == IF n < 10 THEN Digit(n) ELSE str(n \div 10) \o Digit(n % 10)

RECURSIVE join(_, _)
join(sep, parts) ==
    IF parts = <<>> THEN ""
    ELSE IF Len(parts) = 1 THEN parts[1]
    ELSE parts[1] \o sep \o join(sep, Tail(parts))

path_join(a, b) == a \o "/" \o b

(***************************************************************************)
(* Tiles and their extents.  The limits of the coordinate system are       *)
(* scaled so that every division by 2^z is exact.                          *)
(***************************************************************************)
Lim == 2 ^ (MaxZ + 2)
x_limits == <<-Lim, Lim>>
y_limits == <<-Lim, Lim>>

TilesAt(z) == { <<x, y, z>> : x \in 0..(2^z - 1), y \in 0..(2^z - 1) }
AllTiles == UNION { TilesAt(z) : z \in 0..MaxZ }

\* as tile_bbox, but with the east edge one unit short of (x + 1) * box_w
tile_bbox_InsetX(x, y, z, y0_at_north_pole) ==
    LET n == 2 ^ z
        x0 == x_limits[1]
        x1 == x_limits[2]
        y0 == y_limits[1]
        y1 == y_limits[2]
        box_h == (y1 - y0) \div n
        box_w == (x1 - x0) \div n
        n_xs == <<x0 + (x + 0) * box_w, x0 + (x + 1) * box_w - 1>>
        n_ys == <<y0 + (y + 0) * box_h, y0 + (y + 1) * box_h>>
    IN  IF y0_at_north_pole
        THEN <<n_xs, <<-1 * n_ys[2], -1 * n_ys[1]>>>>
        ELSE <<n_xs, n_ys>>

\* as tile_bbox, but with box_h taken from the next zoom's tile count
tile_bbox_ShortY(x, y, z, y0_at_north_pole) ==
    LET n == 2 ^ z
        x0 == x_limits[1]
        x1 == x_limits[2]
        y0 == y_limits[1]
        y1 == y_limits[2]
        box_h == (y1 - y0) \div (2 * n)
        box_w == (x1 - x0) \div n
        n_xs == <<x0 + (x + 0) * box_w, x0 + (x + 1) * box_w>>
        n_ys == <<y0 + (y + 0) * box_h, y0 + (y + 1) * box_h>>
    IN  IF y0_at_north_pole
        THEN <<n_xs, <<-1 * n_ys[2], -1 * n_ys[1]>>>>
        ELSE <<n_xs, n_ys>>

tile_bbox(x, y, z, y0_at_north_pole) ==
    LET n == 2 ^ z
        x0 == x_limits[1]
        x1 == x_limits[2]
        y0 == y_limits[1]
        y1 == y_limits[2]
        box_h == (y1 - y0) \div n
        box_w == (x1 - x0) \div n
        n_xs == <<x0 + (x + 0) * box_w, x0 + (x + 1) * box_w>>
        n_ys == <<y0 + (y + 0) * box_h, y0 + (y + 1) * box_h>>
    IN  IF y0_at_north_pole
        THEN <<n_xs, <<-1 * n_ys[2], -1 * n_ys[1]>>>>
        ELSE <<n_xs, n_ys>>

tileextent(x_y_z) ==
    LET b == tile_bbox(x_y_z[1], x_y_z[2], x_y_z[3], TRUE)
    IN  b[1] \o b[2]

\* as subtiles, but with the column index of the children one too far east
subtiles_ShiftedEast(x_y_z) ==
    LET x == x_y_z[1]
        y == x_y_z[2]
        z == x_y_z[3]
    IN  << <<x * 2 + 1, y * 2, z + 1>>, <<x * 2 + 1, y * 2 + 1, z + 1>>,
           <<x * 2 + 2, y * 2, z + 1>>, <<x * 2 + 2, y * 2 + 1, z + 1>> >>

\* as subtiles, but with yi in the outer loop and xi in the inner one
subtiles_RowMajor(x_y_z) ==
    LET x == x_y_z[1]
        y == x_y_z[2]
        z == x_y_z[3]
    IN  << <<x * 2 + 0, y * 2 + 0, z + 1>>, <<x * 2 + 1, y * 2 + 0, z + 1>>,
           <<x * 2 + 0, y * 2 + 1, z + 1>>, <<x * 2 + 1, y * 2 + 1, z + 1>> >>

\* GoogleWTS.subtiles, in the order it yields
subtiles(x_y_z) ==
    LET x == x_y_z[1]
        y == x_y_z[2]
        z == x_y_z[3]
    IN  << <<x * 2 + 0, y * 2 + 0, z + 1>>, <<x * 2 + 0, y * 2 + 1, z + 1>>,
           <<x * 2 + 1, y * 2 + 0, z + 1>>, <<x * 2 + 1, y * 2 + 1, z + 1>> >>

\* as intersects, but for boxes whose interiors overlap
intersects_Interior(a, b) ==
    /\ a[1] < b[2] /\ b[1] < a[2]
    /\ a[3] < b[4] /\ b[3] < a[4]

\* as intersects, but never pruning
intersects_Always(a, b) == TRUE

\* sgeom.box(x0, y0, x1, y1).intersects(target_domain) for a target domain
\* that is a box <<x0, x1, y0, y1>>: the closed boxes share a point
intersects(a, b) ==
    /\ a[1] <= b[2] /\ b[1] <= a[2]
    /\ a[3] <= b[4] /\ b[3] <= a[4]

\* GoogleWTS._find_images: the tiles the generator yields, in order
RECURSIVE _find_images(_, _, _)
_find_images(target_domain, z, start_tile) ==
    IF intersects(tileextent(start_tile), target_domain)
    THEN IF start_tile[3] = z
         THEN <<start_tile>>
         ELSE LET sub == subtiles(start_tile)
              IN  _find_images(target_domain, z, sub[1])
                  \o _find_images(target_domain, z, sub[2])
                  \o _find_images(target_domain, z, sub[3])
                  \o _find_images(target_domain, z, sub[4])
    ELSE <<>>

find_images(target_domain, z) == _find_images(target_domain, z, <<0, 0, 0>>)

(***************************************************************************)
(* QuadtreeTiles: quadkeys.  A quadkey is the sequence of its characters;  *)
(* the characters '0'..'3' are written 0..3 and OtherChar stands for any   *)
(* other character.                                                        *)
(***************************************************************************)
OtherChar == 4
QuadDigits == 0..3
QuadChars == QuadDigits \cup {OtherChar}

\* (x & mask) != 0 and x | mask for a mask of one bit and x >= 0
BitSet(x, mask) == (x \div mask) % 2 = 1
BitOr(x, mask) == IF BitSet(x, mask) THEN x ELSE x + mask

\* as tms_to_quadkey, but flipping y whatever the google flag
tms_to_quadkey_AlwaysFlip(tms, google) ==
    LET x == tms[1]
        z == tms[3]
        y == (2 ^ z - 1) - tms[2]
    IN  [k \in 1..z |->
            LET mask == 2 ^ ((z - k + 1) - 1)
            IN  (IF BitSet(x, mask) THEN 1 ELSE 0)
                + (IF BitSet(y, mask) THEN 2 ELSE 0)]

\* QuadtreeTiles.tms_to_quadkey: character k of the key is the digit of the
\* loop's pass i = z - k + 1
tms_to_quadkey(tms, google) ==
    LET x == tms[1]
        z == tms[3]
        y == IF ~google THEN (2 ^ z - 1) - tms[2] ELSE tms[2]
    IN  [k \in 1..z |->
            LET mask == 2 ^ ((z - k + 1) - 1)
            IN  (IF BitSet(x, mask) THEN 1 ELSE 0)
                + (IF BitSet(y, mask) THEN 2 ELSE 0)]

\* the loop of quadkey_to_tms from pass i down to pass 1, with x and y so far
RECURSIVE quadkey_loop(_, _, _, _)
quadkey_loop(quadkey, i, x, y) ==
    IF i = 0 THEN [exc |-> "none", x |-> x, y |-> y]
    ELSE LET z == Len(quadkey)
             mask == 2 ^ (i - 1)
             c == quadkey[(z - i) + 1]
         IN  CASE c = 0 -> quadkey_loop(quadkey, i - 1, x, y)
               [] c = 1 -> quadkey_loop(quadkey, i - 1, BitOr(x, mask), y)
               [] c = 2 -> quadkey_loop(quadkey, i - 1, x, BitOr(y, mask))
               [] c = 3 -> quadkey_loop(quadkey, i - 1, BitOr(x, mask), BitOr(y, mask))
               [] OTHER -> [exc |-> "ValueError", x |-> x, y |-> y]

\* as quadkey_to_tms, but raising only for a first character that is not one
\* of '0'..'3' and reading any other such character as '0'
quadkey_to_tms_FirstChar(quadkey, google) ==
    LET z == Len(quadkey)
        r == quadkey_loop([k \in 1..z |-> IF quadkey[k] \in QuadDigits
                                          THEN quadkey[k] ELSE 0], z, 0, 0)
    IN  IF z >= 1 /\ quadkey[1] \notin QuadDigits
        THEN [exc |-> "ValueError", tms |-> <<>>]
        ELSE [exc |-> "none",
              tms |-> <<r.x, IF ~google THEN (2 ^ z - 1) - r.y ELSE r.y, z>>]

\* QuadtreeTiles.quadkey_to_tms: the tile it returns or the error it raises
quadkey_to_tms(quadkey, google) ==
    LET z == Len(quadkey)
        r == quadkey_loop(quadkey, z, 0, 0)
    IN  IF r.exc # "none"
        THEN [exc |-> r.exc, tms |-> <<>>]
        ELSE [exc |-> "none",
              tms |-> <<r.x, IF ~google THEN (2 ^ z - 1) - r.y ELSE r.y, z>>]

\* as QuadtreeTiles_find_images, but returning at line 566 instead of raising
QuadtreeTiles_find_images_Return(target_domain, z) ==
    IF z = 0
    THEN [exc |-> "none", tiles |-> <<>>]
    ELSE LET walk(q) == LET t == _find_images(target_domain, z,
                                              quadkey_to_tms(q, TRUE).tms)
                        IN  [k \in 1..Len(t) |-> tms_to_quadkey(t[k], TRUE)]
         IN  [exc |-> "none",
              tiles |-> walk(<<0>>) \o walk(<<1>>) \o walk(<<2>>) \o walk(<<3>>)]

\* QuadtreeTiles.find_images with start_tile left out: the error it raises
\* at the first next(), or the quadkeys it yields, in order
QuadtreeTiles_find_images(target_domain, z) ==
    IF z = 0
    THEN [exc |-> "ValueError", tiles |-> <<>>]
    ELSE LET walk(q) == LET t == _find_images(target_domain, z,
                                              quadkey_to_tms(q, TRUE).tms)
                        IN  [k \in 1..Len(t) |-> tms_to_quadkey(t[k], TRUE)]
         IN  [exc |-> "none",
              tiles |-> walk(<<0>>) \o walk(<<1>>) \o walk(<<2>>) \o walk(<<3>>)]

\* self.find_images(target_domain, target_z) of an instance of class cls
self_find_images(cls, target_domain, z) ==
    IF cls = "QuadtreeTiles"
    THEN QuadtreeTiles_find_images(target_domain, z)
    ELSE [exc |-> "none", tiles |-> find_images(target_domain, z)]

\* self.tileextent(tile): QuadtreeTiles.tileextent takes a quadkey
self_tileextent(cls, tile) ==
    IF cls = "QuadtreeTiles"
    THEN tileextent(quadkey_to_tms(tile, TRUE).tms)
    ELSE tileextent(tile)

(***************************************************************************)
(* Provider instances (GoogleWTS.__init__ and the subclasses' __init__).   *)
(***************************************************************************)
None == "None"

\* <<class name, style>>; "" for a provider that has no style
Providers == { <<"OSM", "">>, <<"Stamen", "toner">>, <<"Stamen", "terrain">> }

\* the values given as `cache`: False (the default) or a path
CacheArgs == { "False", "/c" }

config_cache_dir == "/default"

\* the instances a behaviour of Spec constructs, in this order
Instances == {1, 2}

\* the tiles the sequential caller of Spec asks for
CallTiles == { <<0, 0, 0>>, <<1, 0, 1>> }

_cache_dir(self) == path_join(self.cache_path, self.cls)

listdir(d) == { f[2] : f \in { g \in DOMAIN disk : g[1] = d } }

\* _load_cache that forgets the directory listing
_load_cache_Empty(self) == self.cache

\* GoogleWTS._load_cache: the index that results
_load_cache(self) ==
    IF self.cache_path # None
    THEN self.cache \cup listdir(_cache_dir(self))
    ELSE self.cache

\* the instance as the assignments of __init__ leave it, before _load_cache
NewInstance(cls, style, cache) ==
    [ cls            |-> cls,
      style          |-> style,
      _default_cache |-> (cache = "True"),
      cache_path     |-> IF cache = "True" THEN config_cache_dir
                         ELSE IF cache = "False" THEN None
                         ELSE cache,
      cache          |-> {},
      born           |-> 0 ]      \* history: calls made before construction

AllDone == \A k \in 1..Len(calls) : calls[k].pc = "done"

\* GoogleWTS.__init__ (through a subclass): construct one more instance
__init__(cls, style, cache) ==
    /\ Len(inst) < Cardinality(Instances)
    /\ AllDone
    /\ LET self == NewInstance(cls, style, cache)
       IN  /\ inst' = Append(inst, [self EXCEPT !.cache = _load_cache(self),
                                                !.born = Len(calls)])
           /\ dirs' = IF self.cache_path # None
                      THEN dirs \cup {_cache_dir(self)}
                      ELSE dirs
    /\ UNCHANGED <<disk, calls, queryVars, poolVars, findVars, conv, box, mrg>>

(***************************************************************************)
(* GoogleWTS.get_image, one step per access to the index, the network or   *)
(* the disk.                                                               *)
(***************************************************************************)
filename(self, tile) ==
    IF self.cache_path # None
    THEN join("_", [j \in 1..Len(tile) |-> str(tile[j])]) \o ".npy"
    ELSE None

cached_file(self, tile) ==
    IF self.cache_path # None
    THEN <<_cache_dir(self), filename(self, tile)>>
    ELSE None

\* a test of the index that never finds the key
InCache_Never(self, tile) == FALSE

\* `filename in self.cache`
InCache(self, tile) == filename(self, tile) \in self.cache

\* what urlopen, fh.read and Image.open can do
NetOutcomes == { "ok", "HTTPError", "URLError", "UnidentifiedImageError" }

\* what np.save can do: write the whole file, fail before creating it, or
\* fail after writing a part of it
SaveOutcomes == { "ok", "PermissionError", "ENOSPC" }

PLACEHOLDER == "placeholder_256x256_250"

\* a get_image invocation that has not run yet
NewCall(i, tile, pc) ==
    [ inst |-> i, tile |-> tile, pc |-> pc,
      known |-> FALSE, save |-> "none",
      fetched |-> FALSE, wrote |-> FALSE, added |-> FALSE,
      img |-> "none", res |-> "none", ret |-> <<>> ]

Return(c, img) ==
    [c EXCEPT !.pc = "done", !.res = "ok", !.img = img,
              !.ret = <<img, self_tileextent(inst[c.inst].cls, c.tile), "lower">>]

Raise(c, exc) == [c EXCEPT !.pc = "done", !.res = exc]

\* the sequential caller of Spec calls get_image(tile) on instance i
get_image(i, tile) ==
    /\ Len(calls) < MaxCalls
    /\ AllDone
    /\ i \in 1..Len(inst)
    /\ calls' = Append(calls, NewCall(i, tile, "start"))
    /\ UNCHANGED <<inst, dirs, disk, queryVars, poolVars, findVars, conv, box, mrg>>

\* lines 210-220: the cache key and the test of the index
Lookup(k) ==
    /\ calls[k].pc = "start"
    /\ LET c == calls[k]
           self == inst[c.inst]
       IN  calls' = [calls EXCEPT ![k] =
                        [c EXCEPT !.known = (filename(self, c.tile) \in self.cache),
                                  !.pc = IF InCache(self, c.tile)
                                         THEN "load" ELSE "fetch"]]
    /\ UNCHANGED <<inst, dirs, disk, queryVars, poolVars, findVars, conv, box, mrg>>

\* line 221: np.load of the persisted raster
Load(k) ==
    /\ calls[k].pc = "load"
    /\ LET c == calls[k]
           content == disk[cached_file(inst[c.inst], c.tile)]
       IN  calls' = [calls EXCEPT ![k] =
                        IF content = "partial"
                        THEN Raise(c, "ValueError")
                        ELSE Return(c, content)]
    /\ UNCHANGED <<inst, dirs, disk, queryVars, poolVars, findVars, conv, box, mrg>>

\* the raster lines 223-236 leave in img, "none" when they raise
Fetched(outcome) ==
    CASE outcome = "ok" -> "raster"
      [] outcome \in {"HTTPError", "URLError"} -> PLACEHOLDER
      [] OTHER -> "none"

\* Fetch without the `if self.cache_path is not None` of line 237
Fetch_AlwaysSave(k) ==
    /\ calls[k].pc = "fetch"
    /\ \E outcome \in NetOutcomes :
         LET c == [calls[k] EXCEPT !.fetched = TRUE]
             img == Fetched(outcome)
         IN  calls' = [calls EXCEPT ![k] =
                          IF img = "none"
                          THEN Raise(c, "OSError")
                          ELSE [c EXCEPT !.pc = "save", !.img = img]]
    /\ UNCHANGED <<inst, dirs, disk, queryVars, poolVars, findVars, conv, box, mrg>>

\* lines 223-237: the request, the placeholder, the conversion
Fetch(k) ==
    /\ calls[k].pc = "fetch"
    /\ \E outcome \in NetOutcomes :
         LET c == [calls[k] EXCEPT !.fetched = TRUE]
             img == Fetched(outcome)
         IN  calls' = [calls EXCEPT ![k] =
                          IF img = "none"
                          THEN Raise(c, "OSError")
                          ELSE IF inst[c.inst].cache_path # None
                          THEN [c EXCEPT !.pc = "save", !.img = img]
                          ELSE Return(c, img)]
    /\ UNCHANGED <<inst, dirs, disk, queryVars, poolVars, findVars, conv, box, mrg>>

Write(file, content) ==
    [f \in DOMAIN disk \cup {file} |-> IF f = file THEN content ELSE disk[f]]

\* Save that swallows the error of np.save and goes on to line 239
Save_Swallow(k) ==
    /\ calls[k].pc = "save"
    /\ \E outcome \in SaveOutcomes :
         LET c == calls[k]
             file == cached_file(inst[c.inst], c.tile)
         IN  /\ disk' = IF outcome = "ok" THEN Write(file, c.img)
                        ELSE IF outcome = "ENOSPC" THEN Write(file, "partial")
                        ELSE disk
             /\ calls' = [calls EXCEPT ![k] =
                             [c EXCEPT !.pc = "add",
                                       !.save = IF outcome = "ok" THEN "ok"
                                                ELSE "OSError",
                                       !.wrote = (outcome # "PermissionError")]]
    /\ UNCHANGED <<inst, dirs, queryVars, poolVars, findVars, conv, box, mrg>>

\* line 238: np.save
Save(k) ==
    /\ calls[k].pc = "save"
    /\ \E outcome \in SaveOutcomes :
         LET c == calls[k]
             file == cached_file(inst[c.inst], c.tile)
         IN  CASE outcome = "ok" ->
                    /\ disk' = Write(file, c.img)
                    /\ calls' = [calls EXCEPT ![k] =
                                    [c EXCEPT !.pc = "add", !.save = "ok",
                                              !.wrote = TRUE]]
               [] outcome = "PermissionError" ->
                    /\ disk' = disk
                    /\ calls' = [calls EXCEPT ![k] =
                                    Raise([c EXCEPT !.save = "OSError"], "OSError")]
               [] outcome = "ENOSPC" ->
                    /\ disk' = Write(file, "partial")
                    /\ calls' = [calls EXCEPT ![k] =
                                    Raise([c EXCEPT !.save = "OSError",
                                                    !.wrote = TRUE], "OSError")]
    /\ UNCHANGED <<inst, dirs, queryVars, poolVars, findVars, conv, box, mrg>>

\* as Add, but writing back an index that holds this call's key alone
Add_Replace(k) ==
    /\ calls[k].pc = "add"
    /\ LET c == calls[k]
           self == inst[c.inst]
       IN  /\ inst' = [inst EXCEPT ![c.inst].cache = {filename(self, c.tile)}]
           /\ calls' = [calls EXCEPT ![k] =
                           Return([c EXCEPT !.added = TRUE], c.img)]
    /\ UNCHANGED <<dirs, disk, queryVars, poolVars, findVars, conv, box, mrg>>

\* Add without the self.cache.add(filename) of line 239
Add_NoIndex(k) ==
    /\ calls[k].pc = "add"
    /\ inst' = inst
    /\ calls' = [calls EXCEPT ![k] = Return(calls[k], calls[k].img)]
    /\ UNCHANGED <<dirs, disk, queryVars, poolVars, findVars, conv, box, mrg>>

\* lines 239-241: self.cache.add(filename) and the return
Add(k) ==
    /\ calls[k].pc = "add"
    /\ LET c == calls[k]
           self == inst[c.inst]
       IN  /\ inst' = [inst EXCEPT ![c.inst].cache =
                          self.cache \cup {filename(self, c.tile)}]
           /\ calls' = [calls EXCEPT ![k] =
                           Return([c EXCEPT !.added = TRUE], c.img)]
    /\ UNCHANGED <<dirs, disk, queryVars, poolVars, findVars, conv, box, mrg>>

(***************************************************************************)
(* Spec: instances and sequential get_image calls.                         *)
(***************************************************************************)
NoQuery ==
    /\ qpc = "none" /\ domain = <<>> /\ target_z = 0
    /\ collected = {} /\ tiles = <<>>
    /\ result = [exc |-> "none", by |-> "none"]

NoPool ==
    /\ nTiles = 0 /\ submitted = 0 /\ started = 0 /\ finished = 0
    /\ nthreads = 0 /\ idle = 0

NoFind ==
    /\ fpc = "none" /\ fexc = "none" /\ fstart = <<>> /\ fstack = <<>> /\ starts = <<>>
    /\ yielded = <<>> /\ runs = <<>>

NoConv == conv = [pc |-> "none"]

NoBox == box = [pc |-> "none"]

NoMerge == mrg = [pc |-> "none"]

Init ==
    /\ inst = <<>>
    /\ dirs = {}
    /\ disk = [f \in {} |-> ""]
    /\ calls = <<>>
    /\ NoQuery
    /\ NoPool
    /\ NoFind
    /\ NoConv
    /\ NoBox
    /\ NoMerge

Construct == \E p \in Providers, cache \in CacheArgs : __init__(p[1], p[2], cache)

CallGetImage == \E i \in 1..Len(inst), tile \in CallTiles : get_image(i, tile)

Next ==
    \/ Construct
    \/ CallGetImage
    \/ \E k \in 1..Len(calls) : Lookup(k)
    \/ \E k \in 1..Len(calls) : Load(k)
    \/ \E k \in 1..Len(calls) : Fetch(k)
    \/ \E k \in 1..Len(calls) : Save(k)
    \/ \E k \in 1..Len(calls) : Add(k)

Spec == Init /\ [][Next]_vars

(***************************************************************************)
(* SpecDomain: one image_for_domain query on one instance.  The cache      *)
(* directory may hold a file an earlier process left, whole or truncated   *)
(* by a failed np.save (both are reachable under Spec).                    *)
(***************************************************************************)
_MAX_THREADS == 24

\* the target domains of the queries: the whole extent, a box inside one
\* quadrant, a box across the boundary of two quadrants
QueryDomains ==
    { <<-Lim, Lim, -Lim, Lim>>, <<1, Lim - 1, 1, Lim - 1>>, <<-1, 1, 1, Lim - 1>> }

NoFiles == [f \in {} |-> ""]

\* line 89: self.find_images(target_domain, target_z) of the query's instance:
\* the tiles it yields and the error it raises
found == self_find_images(inst[1].cls, domain, target_z).tiles
found_exc == self_find_images(inst[1].cls, domain, target_z).exc

\* the classes of the instance that is queried; a QuadtreeTiles instance is
\* queried without a cache
DomainClasses == {"OSM", "QuadtreeTiles"}
DomainCacheArgs(cls) == IF cls = "QuadtreeTiles" THEN {"False"} ELSE CacheArgs

\* what an earlier process can have left in the cache directory: nothing, or
\* the file of a tile, whole or truncated
EarlierFiles(self, tile) ==
    IF self.cache_path # None
    THEN {NoFiles} \cup { [f \in {cached_file(self, tile)} |-> c] :
                              c \in {"raster", "partial"} }
    ELSE {NoFiles}

InitDomain ==
    /\ domain \in QueryDomains
    /\ target_z \in 0..MaxZ
    /\ \E cls \in DomainClasses :
          \E cache \in DomainCacheArgs(cls) :
             LET self == NewInstance(cls, "", cache)
                 f == self_find_images(cls, domain, target_z)
             IN  /\ Len(f.tiles) <= MaxQueryTiles
                 /\ disk \in IF f.tiles = <<>> THEN {NoFiles}
                              ELSE EarlierFiles(self, f.tiles[1])
                 /\ dirs = IF self.cache_path # None THEN {_cache_dir(self)} ELSE {}
                 /\ inst = <<[self EXCEPT !.cache = _load_cache(self)]>>
    /\ calls = <<>>
    /\ qpc = "submit"
    /\ collected = {}
    /\ tiles = <<>>
    /\ result = [exc |-> "none", by |-> "none"]
    /\ NoPool
    /\ NoFind
    /\ NoConv
    /\ NoBox
    /\ NoMerge

\* lines 89-90: executor.submit(fetch_tile, tile) for the next tile found.
\* A query of this specification submits fewer than _MAX_THREADS work items,
\* so a worker thread takes each one as it is submitted.
Submit ==
    /\ qpc = "submit"
    /\ Len(calls) < Len(found)
    /\ Len(calls) < _MAX_THREADS
    /\ calls' = Append(calls, NewCall(1, found[Len(calls) + 1], "start"))
    /\ UNCHANGED <<inst, dirs, disk, queryVars, poolVars, findVars, conv, box, mrg>>

\* line 89: the first next() on the generator of find_images raises; nothing
\* was submitted, and the exception leaves the with block
FindFails ==
    /\ qpc = "submit"
    /\ found_exc # "none"
    /\ qpc' = "unwind"
    /\ result' = [exc |-> found_exc, by |-> "find_images"]
    /\ UNCHANGED <<cacheVars, domain, target_z, collected, tiles, poolVars, findVars, conv, box, mrg>>

\* line 91: the generator is exhausted, as_completed starts
Submitted ==
    /\ qpc = "submit"
    /\ found_exc = "none"
    /\ Len(calls) = Len(found)
    /\ qpc' = "collect"
    /\ UNCHANGED <<cacheVars, domain, target_z, collected, tiles, result, poolVars, findVars, conv, box, mrg>>

\* lines 81-84: what fetch_tile returns for the call's image and extent
fetch_tile(c) ==
    [ img |-> c.ret[1],
      x |-> <<c.ret[2][1], c.ret[2][2]>>,
      y |-> <<c.ret[2][3], c.ret[2][4]>>,
      origin |-> c.ret[3] ]

\* lines 91-96: as_completed hands over a finished future, result() returns
\* or raises what fetch_tile did
Collect(k) ==
    /\ qpc = "collect"
    /\ calls[k].pc = "done"
    /\ k \notin collected
    /\ CASE calls[k].res = "ok" ->
              /\ tiles' = Append(tiles, fetch_tile(calls[k]))
              /\ collected' = collected \cup {k}
              /\ UNCHANGED <<qpc, result>>
         [] calls[k].res = "OSError" ->
              /\ collected' = collected \cup {k}
              /\ UNCHANGED <<qpc, tiles, result>>
         [] OTHER ->
              /\ qpc' = "unwind"
              /\ result' = [exc |-> calls[k].res, by |-> "future.result"]
              /\ UNCHANGED <<collected, tiles>>
    /\ UNCHANGED <<cacheVars, domain, target_z, poolVars, findVars, conv, box, mrg>>

\* as Collected, but leaving the loop at the first collected future
Collected_Early ==
    /\ qpc = "collect"
    /\ collected # {}
    /\ qpc' = "merge"
    /\ UNCHANGED <<cacheVars, domain, target_z, collected, tiles, result, poolVars, findVars, conv, box, mrg>>

\* lines 86-96: every future is collected, the with block ends
Collected ==
    /\ qpc = "collect"
    /\ collected = 1..Len(calls)
    /\ qpc' = "merge"
    /\ UNCHANGED <<cacheVars, domain, target_z, collected, tiles, result, poolVars, findVars, conv, box, mrg>>

\* lines 86-87: an exception leaves the with block, whose exit waits for the
\* work items still queued or running
Unwind ==
    /\ qpc = "unwind"
    /\ AllDone
    /\ qpc' = "raised"
    /\ UNCHANGED <<cacheVars, domain, target_z, collected, tiles, result, poolVars, findVars, conv, box, mrg>>

\* lines 98-99 and 637-639: _merge_tiles(tiles) and the return
Merge ==
    /\ qpc = "merge"
    /\ IF tiles = <<>>
       THEN /\ qpc' = "raised"
            /\ result' = [exc |-> "ValueError", by |-> "_merge_tiles"]
       ELSE /\ qpc' = "returned"
            /\ result' = [exc |-> "none", by |-> "_merge_tiles"]
    /\ UNCHANGED <<cacheVars, domain, target_z, collected, tiles, poolVars, findVars, conv, box, mrg>>

NextDomain ==
    \/ Submit
    \/ FindFails
    \/ Submitted
    \/ \E k \in 1..Len(calls) : Lookup(k)
    \/ \E k \in 1..Len(calls) : Load(k)
    \/ \E k \in 1..Len(calls) : Fetch(k)
    \/ \E k \in 1..Len(calls) : Save(k)
    \/ \E k \in 1..Len(calls) : Add(k)
    \/ \E k \in 1..Len(calls) : Collect(k)
    \/ Collected
    \/ Unwind
    \/ Merge

SpecDomain == InitDomain /\ [][NextDomain]_vars

(***************************************************************************)
(* SpecPool: the ThreadPoolExecutor(max_workers=self._MAX_THREADS) of      *)
(* image_for_domain and the work items submitted to it.  The executor      *)
(* treats all work items alike, so they are counted: `submitted` of the    *)
(* nTiles tiles have been handed to executor.submit, the first `started`   *)
(* of these have been taken off the work queue by a worker thread, and     *)
(* `finished` of those have run to completion.                             *)
(***************************************************************************)
InitPool ==
    /\ inst = <<NewInstance("OSM", "", "False")>>
    /\ dirs = {}
    /\ disk = NoFiles
    /\ calls = <<>>
    /\ qpc = "submit"
    /\ domain = <<-Lim, Lim, -Lim, Lim>>
    /\ target_z = 0
    /\ collected = {}
    /\ tiles = <<>>
    /\ result = [exc |-> "none", by |-> "none"]
    /\ nTiles \in 0..MaxTiles
    /\ submitted = 0
    /\ started = 0
    /\ finished = 0
    /\ nthreads = 0
    /\ idle = 0
    /\ NoFind
    /\ NoConv
    /\ NoBox
    /\ NoMerge

\* fetches in flight: work items a worker thread has taken and not finished
InFlight == started - finished

\* a submit that starts a thread whatever the number of threads
PoolSubmit_NoLimit ==
    /\ qpc = "submit"
    /\ submitted < nTiles
    /\ submitted' = submitted + 1
    /\ IF idle > 0
       THEN idle' = idle - 1 /\ nthreads' = nthreads
       ELSE idle' = idle /\ nthreads' = nthreads + 1
    /\ UNCHANGED <<cacheVars, queryVars, nTiles, started, finished, findVars, conv, box, mrg>>

\* line 90: executor.submit queues the work item and then, unless a worker
\* is idle, starts a worker thread if fewer than max_workers exist
PoolSubmit ==
    /\ qpc = "submit"
    /\ submitted < nTiles
    /\ submitted' = submitted + 1
    /\ IF idle > 0
       THEN idle' = idle - 1 /\ nthreads' = nthreads
       ELSE IF nthreads < _MAX_THREADS
       THEN idle' = idle /\ nthreads' = nthreads + 1
       ELSE idle' = idle /\ nthreads' = nthreads
    /\ UNCHANGED <<cacheVars, queryVars, nTiles, started, finished, findVars, conv, box, mrg>>

\* line 91: every tile is submitted, the calling thread waits in as_completed
PoolSubmitted ==
    /\ qpc = "submit"
    /\ submitted = nTiles
    /\ qpc' = "collect"
    /\ UNCHANGED <<cacheVars, domain, target_z, collected, tiles, result, poolVars, findVars, conv, box, mrg>>

\* a worker thread that runs no work item takes the oldest one queued and
\* calls fetch_tile
PoolStart ==
    /\ started < submitted
    /\ InFlight < nthreads
    /\ started' = started + 1
    /\ UNCHANGED <<cacheVars, queryVars, nTiles, submitted, finished, nthreads, idle, findVars, conv, box, mrg>>

\* fetch_tile returns or raises in a worker, which then signals that it is idle
PoolFinish ==
    /\ finished < started
    /\ finished' = finished + 1
    /\ idle' = idle + 1
    /\ UNCHANGED <<cacheVars, queryVars, nTiles, submitted, started, nthreads, findVars, conv, box, mrg>>

NextPool ==
    \/ PoolSubmit
    \/ PoolSubmitted
    \/ PoolStart
    \/ PoolFinish

SpecPool == InitPool /\ [][NextPool]_vars

(***************************************************************************)
(* SpecQuadkey: one conversion of a quadkey or of a Cartesian tile, and    *)
(* the conversion of its result back.                                      *)
(***************************************************************************)
MaxKeyLen == 6    \* longest quadkey over '0'..'3', deepest zoom of a tile
MaxBadLen == 3    \* longest quadkey that holds other characters

KeysOver(chars, n) == UNION { [1..m -> chars] : m \in 0..n }
KeyInputs == KeysOver(QuadDigits, MaxKeyLen) \cup KeysOver(QuadChars, MaxBadLen)
TmsInputs == UNION { TilesAt(z) : z \in 0..MaxKeyLen }

InitQuadkey ==
    /\ inst = <<>>
    /\ dirs = {}
    /\ disk = [f \in {} |-> ""]
    /\ calls = <<>>
    /\ NoQuery
    /\ NoPool
    /\ NoFind
    /\ NoBox
    /\ NoMerge
    /\ \E google \in BOOLEAN :
          \/ \E q \in KeyInputs :
                conv = [pc |-> "start", google |-> google, from |-> "quadkey",
                        input |-> q, mid |-> <<>>, out |-> <<>>, exc |-> "none"]
          \/ \E t \in TmsInputs :
                conv = [pc |-> "start", google |-> google, from |-> "tms",
                        input |-> t, mid |-> <<>>, out |-> <<>>, exc |-> "none"]

\* a call of quadkey_to_tms: on the input, or on the quadkey made from it
QuadkeyToTms ==
    /\ \/ conv.pc = "start" /\ conv.from = "quadkey"
       \/ conv.pc = "mid" /\ conv.from = "tms"
    /\ LET r == quadkey_to_tms(IF conv.pc = "start" THEN conv.input ELSE conv.mid,
                               conv.google)
       IN  conv' = IF r.exc # "none"
                   THEN [conv EXCEPT !.pc = "raised", !.exc = r.exc]
                   ELSE IF conv.pc = "start"
                        THEN [conv EXCEPT !.pc = "mid", !.mid = r.tms]
                        ELSE [conv EXCEPT !.pc = "done", !.out = r.tms]
    /\ UNCHANGED <<cacheVars, queryVars, poolVars, findVars, box, mrg>>

\* a call of tms_to_quadkey: on the input, or on the tile made from it
TmsToQuadkey ==
    /\ \/ conv.pc = "start" /\ conv.from = "tms"
       \/ conv.pc = "mid" /\ conv.from = "quadkey"
    /\ conv' = IF conv.pc = "start"
               THEN [conv EXCEPT !.pc = "mid",
                                 !.mid = tms_to_quadkey(conv.input, conv.google)]
               ELSE [conv EXCEPT !.pc = "done",
                                 !.out = tms_to_quadkey(conv.mid, conv.google)]
    /\ UNCHANGED <<cacheVars, queryVars, poolVars, findVars, box, mrg>>

NextQuadkey ==
    \/ QuadkeyToTms
    \/ TmsToQuadkey

SpecQuadkey == InitQuadkey /\ [][NextQuadkey]_vars

(***************************************************************************)
(* SpecFind: one find_images generator run to exhaustion, one step of the  *)
(* walk at a time.  fstack holds the _find_images calls that are pending,  *)
(* each with the depth of its frame below the consumer of the generator.   *)
(***************************************************************************)
MaxFindZ == 2    \* deepest target zoom of a find_images invocation

\* the interpreter's recursion limit, scaled: above the depth of every walk
\* from a start tile to a target zoom that is not above it
RecursionLimit == MaxFindZ + 2

\* target domains: the boxes <<x0, x1, y0, y1>> with corners on FindCoords
FindCoords == { -Lim, -(3 * Lim) \div 4, -Lim \div 2, 0, Lim \div 4, Lim \div 2, Lim }
FindDomains ==
    { b \in FindCoords \X FindCoords \X FindCoords \X FindCoords :
          b[1] < b[2] /\ b[3] < b[4] }

\* the start_tile argument: left out, or a tile of zoom 0 or 1 (GoogleWTS),
\* or a quadkey of at most one character (QuadtreeTiles)
StartArgs(cls) ==
    IF cls = "QuadtreeTiles"
    THEN {[given |-> FALSE, tile |-> <<>>]}
            \cup { [given |-> TRUE, tile |-> q] : q \in KeysOver(QuadChars, 1) }
    ELSE {[given |-> FALSE, tile |-> <<0, 0, 0>>]}
            \cup { [given |-> TRUE, tile |-> t] : t \in TilesAt(0) \cup TilesAt(1) }

FindClasses == {"OSM", "QuadtreeTiles"}

InitFind ==
    /\ \E cls \in FindClasses :
          /\ inst = <<NewInstance(cls, "", "False")>>
          /\ fstart \in StartArgs(cls)
    /\ dirs = {}
    /\ disk = [f \in {} |-> ""]
    /\ calls = <<>>
    /\ qpc = "none"
    /\ domain \in FindDomains
    /\ target_z \in 0..MaxFindZ
    /\ collected = {} /\ tiles = <<>>
    /\ result = [exc |-> "none", by |-> "none"]
    /\ NoPool
    /\ NoConv
    /\ NoBox
    /\ NoMerge
    /\ fpc = "new" /\ fexc = "none"
    /\ fstack = <<>> /\ starts = <<>> /\ yielded = <<>> /\ runs = <<>>

\* a pending call _find_images(target_domain, target_z, start_tile=tile)
Frame(tile, depth) == [tile |-> tile, depth |-> depth]

\* lines 172-176: the assertions of tile_bbox
tile_bbox_asserts(x, y, z) ==
    /\ 0 <= x /\ x <= 2 ^ z - 1
    /\ 0 <= y /\ y <= 2 ^ z - 1

\* the generator raises exc to its consumer
FindRaise(exc) ==
    /\ fpc' = "raised"
    /\ fexc' = exc
    /\ runs' = Append(runs, yielded)
    /\ UNCHANGED <<fstart, fstack, starts, yielded>>

\* the first next() on the generator: GoogleWTS._find_images is entered for
\* the start tile (line 121); QuadtreeTiles.find_images runs lines 565-571
FindStart ==
    /\ fpc = "new"
    /\ IF inst[1].cls = "QuadtreeTiles"
       THEN IF target_z = 0
            THEN FindRaise("ValueError")
            ELSE /\ fpc' = "run"
                 /\ starts' = IF ~fstart.given THEN << <<0>>, <<1>>, <<2>>, <<3>> >>
                              ELSE <<fstart.tile>>
                 /\ UNCHANGED <<fexc, fstart, fstack, yielded, runs>>
       ELSE /\ fpc' = "run"
            /\ fstack' = <<Frame(fstart.tile, 1)>>
            /\ UNCHANGED <<fexc, fstart, starts, yielded, runs>>
    /\ UNCHANGED <<cacheVars, queryVars, poolVars, conv, box, mrg>>

\* lines 573-576: the next start tile of QuadtreeTiles.find_images
FindNextStart ==
    /\ fpc = "run"
    /\ fstack = <<>>
    /\ starts # <<>>
    /\ LET r == quadkey_to_tms(Head(starts), TRUE)
       IN  IF r.exc # "none"
           THEN FindRaise(r.exc)
           ELSE /\ fstack' = <<Frame(r.tms, 2)>>
                /\ starts' = Tail(starts)
                /\ UNCHANGED <<fpc, fexc, fstart, yielded, runs>>
    /\ UNCHANGED <<cacheVars, queryVars, poolVars, conv, box, mrg>>

\* what the generator yields for a tile found: GoogleWTS the tile itself,
\* QuadtreeTiles (line 577) its quadkey
Yield(self, tile) ==
    IF self.cls = "QuadtreeTiles" THEN tms_to_quadkey(tile, TRUE) ELSE tile

\* as FindVisit, but passing over a tile whose file the cache index holds
FindVisit_SkipCached ==
    /\ fpc = "run"
    /\ fstack # <<>>
    /\ LET f == Head(fstack)
           t == f.tile
       IN  IF f.depth > RecursionLimit
           THEN FindRaise("RecursionError")
           ELSE IF ~tile_bbox_asserts(t[1], t[2], t[3])
           THEN FindRaise("AssertionError")
           ELSE IF ~intersects(tileextent(t), domain)
           THEN /\ fstack' = Tail(fstack)
                /\ UNCHANGED <<fpc, fexc, fstart, starts, yielded, runs>>
           ELSE IF t[3] = target_z
           THEN /\ yielded' = IF join("_", [j \in 1..3 |-> str(t[j])]) \o ".npy"
                                    \in inst[1].cache
                               THEN yielded
                               ELSE Append(yielded, Yield(inst[1], t))
                /\ fstack' = Tail(fstack)
                /\ UNCHANGED <<fpc, fexc, fstart, starts, runs>>
           ELSE /\ fstack' = [k \in 1..4 |-> Frame(subtiles(t)[k], f.depth + 1)]
                                \o Tail(fstack)
                /\ UNCHANGED <<fpc, fexc, fstart, starts, yielded, runs>>
    /\ UNCHANGED <<cacheVars, queryVars, poolVars, conv, box, mrg>>

\* lines 126-137: the body of the innermost pending _find_images call
FindVisit ==
    /\ fpc = "run"
    /\ fstack # <<>>
    /\ LET f == Head(fstack)
           t == f.tile
       IN  IF f.depth > RecursionLimit
           THEN FindRaise("RecursionError")
           ELSE IF ~tile_bbox_asserts(t[1], t[2], t[3])
           THEN FindRaise("AssertionError")
           ELSE IF ~intersects(tileextent(t), domain)
           THEN /\ fstack' = Tail(fstack)
                /\ UNCHANGED <<fpc, fexc, fstart, starts, yielded, runs>>
           ELSE IF t[3] = target_z
           THEN /\ yielded' = Append(yielded, Yield(inst[1], t))
                /\ fstack' = Tail(fstack)
                /\ UNCHANGED <<fpc, fexc, fstart, starts, runs>>
           ELSE /\ fstack' = [k \in 1..4 |-> Frame(subtiles(t)[k], f.depth + 1)]
                                \o Tail(fstack)
                /\ UNCHANGED <<fpc, fexc, fstart, starts, yielded, runs>>
    /\ UNCHANGED <<cacheVars, queryVars, poolVars, conv, box, mrg>>

\* the generator is exhausted
FindEnd ==
    /\ fpc = "run"
    /\ fstack = <<>>
    /\ starts = <<>>
    /\ fpc' = "done"
    /\ runs' = Append(runs, yielded)
    /\ UNCHANGED <<fexc, fstart, fstack, starts, yielded>>
    /\ UNCHANGED <<cacheVars, queryVars, poolVars, conv, box, mrg>>

NextFind ==
    \/ FindStart
    \/ FindNextStart
    \/ FindVisit
    \/ FindEnd

SpecFind == InitFind /\ [][NextFind]_vars

(***************************************************************************)
(* SpecRestart: find_images is invoked again and again with the same       *)
(* arguments on one instance, while a caller of get_image changes the      *)
(* instance's cache between and during the walks.                          *)
(***************************************************************************)
MaxRuns == 2     \* invocations of find_images

\* the arguments of the invocations: target zooms, and start_tile left out
\* or given as a quadrant
RestartZooms == {0, 1}
RestartStarts == { [given |-> FALSE, tile |-> <<0, 0, 0>>],
                   [given |-> TRUE, tile |-> <<1, 0, 1>>] }

InitRestart ==
    /\ \E cache \in CacheArgs :
          LET self == NewInstance("OSM", "", cache)
          IN  /\ inst = <<self>>
              /\ dirs = IF self.cache_path # None THEN {_cache_dir(self)} ELSE {}
    /\ disk = NoFiles
    /\ calls = <<>>
    /\ qpc = "none"
    /\ domain \in QueryDomains
    /\ target_z \in RestartZooms
    /\ collected = {} /\ tiles = <<>>
    /\ result = [exc |-> "none", by |-> "none"]
    /\ NoPool
    /\ NoConv
    /\ NoBox
    /\ NoMerge
    /\ fstart \in RestartStarts
    /\ fpc = "new" /\ fexc = "none"
    /\ fstack = <<>> /\ starts = <<>> /\ yielded = <<>> /\ runs = <<>>

\* find_images is called once more with the same arguments: a new generator
FindAgain ==
    /\ fpc \in {"done", "raised"}
    /\ Len(runs) < MaxRuns
    /\ fpc' = "new"
    /\ fexc' = "none"
    /\ fstack' = <<>>
    /\ starts' = <<>>
    /\ yielded' = <<>>
    /\ UNCHANGED <<fstart, runs>>
    /\ UNCHANGED <<cacheVars, queryVars, poolVars, conv, box, mrg>>

NextRestart ==
    \/ FindStart
    \/ FindVisit
    \/ FindEnd
    \/ FindAgain
    \/ CallGetImage
    \/ \E k \in 1..Len(calls) : Lookup(k)
    \/ \E k \in 1..Len(calls) : Load(k)
    \/ \E k \in 1..Len(calls) : Fetch(k)
    \/ \E k \in 1..Len(calls) : Save(k)
    \/ \E k \in 1..Len(calls) : Add(k)

SpecRestart == InitRestart /\ [][NextRestart]_vars

(***************************************************************************)
(* SpecBBox: the extent of one tile, of its four subtiles and of its       *)
(* neighbour to the east, each computed by tileextent.                     *)
(***************************************************************************)
\* the tiles whose subtiles' extents are exact with the scaled limits
BoxTiles == UNION { TilesAt(z) : z \in 0..(MaxZ + 2) }

InitBBox ==
    /\ inst = <<>>
    /\ dirs = {}
    /\ disk = [f \in {} |-> ""]
    /\ calls = <<>>
    /\ NoQuery
    /\ NoPool
    /\ NoFind
    /\ NoConv
    /\ NoMerge
    /\ \E t \in BoxTiles :
          box = [pc |-> "start", tile |-> t, bbox |-> <<>>, kids |-> <<>>,
                 east |-> <<>>]

\* self.tileextent(tile)
TileExtent ==
    /\ box.pc = "start"
    /\ box' = [box EXCEPT !.pc = "boxed", !.bbox = tileextent(box.tile)]
    /\ UNCHANGED <<cacheVars, queryVars, poolVars, findVars, conv, mrg>>

\* self.tileextent(t) for each t of self.subtiles(tile), in order
SubtileExtents ==
    /\ box.pc = "boxed"
    /\ box.kids = <<>>
    /\ box' = [box EXCEPT !.kids = [k \in 1..4 |-> tileextent(subtiles(box.tile)[k])]]
    /\ UNCHANGED <<cacheVars, queryVars, poolVars, findVars, conv, mrg>>

\* self.tileextent((x + 1, y, z)), where that is a tile
EastExtent ==
    /\ box.pc = "boxed"
    /\ box.east = <<>>
    /\ box.tile[1] < 2 ^ box.tile[3] - 1
    /\ box' = [box EXCEPT !.east =
                  tileextent(<<box.tile[1] + 1, box.tile[2], box.tile[3]>>)]
    /\ UNCHANGED <<cacheVars, queryVars, poolVars, findVars, conv, mrg>>

NextBBox ==
    \/ TileExtent
    \/ SubtileExtents
    \/ EastExtent

SpecBBox == InitBBox /\ [][NextBBox]_vars

(***************************************************************************)
(* _merge_tiles.  An image is the sequence of its rows, first row first,   *)
(* a row the sequence of its pixels; a pixel is named after the tile it    *)
(* shows and its row and column in the tile's image, and <<>> is a pixel   *)
(* of the output that no tile was copied to (np.zeros(...) - 1).  Indices  *)
(* of arrays are counted from 0 as in the code, sequences from 1.          *)
(***************************************************************************)
TilePx == 2      \* rows and columns of a tile's image

Unfilled == <<>>

\* np.array(img) of the image served for a tile
np_array(tile) == [r \in 1..TilePx |-> [c \in 1..TilePx |-> tile \o <<r, c>>]]

\* np.linspace(start, stop, num)
linspace(start, stop, num) ==
    IF num = 1 THEN <<start>>
    ELSE [i \in 1..num |-> start + ((i - 1) * (stop - start)) \div (num - 1)]

\* lines 81-84: the arrays fetch_tile makes of a tile's image and extent,
\* with the origin the tile is tagged with
TileArrays(tile, origin) ==
    LET img == np_array(tile)
        extent == tileextent(tile)
    IN  [ img    |-> img,
          x      |-> linspace(extent[1], extent[2], Len(img[1])),
          y      |-> linspace(extent[3], extent[4], Len(img)),
          origin |-> origin ]

\* set(x) of an array and sorted(xs) of a set
set(x) == { x[i] : i \in 1..Len(x) }
sorted(S) ==
    [i \in 1..Cardinality(S) |->
        CHOOSE v \in S : Cardinality({ u \in S : u < v }) = i - 1]

\* np.where((first == xs) | (last == xs))[0]: the indices, ascending
where(first, last, xs) ==
    sorted({ i - 1 : i \in { j \in 1..Len(xs) : xs[j] = first \/ xs[j] = last } })

\* as tile_slice, but the slice stops before the index i1
tile_slice_Exclusive(i0, i1, length) ==
    [start |-> i0, stop |-> i1, stop_is_None |-> FALSE,
     step |-> IF i0 < i1 THEN 1 ELSE -1]

\* lines 659-666 and 671-678: the slice from index i0 to index i1 of an axis
\* of the output of the given length
tile_slice(i0, i1, length) ==
    LET step == IF i0 < i1 THEN 1 ELSE -1
        none == (step = 1 /\ i1 = length - 1) \/ (step = -1 /\ i1 = 0)
    IN  [start |-> i0, stop |-> IF none THEN 0 ELSE i1 + step,
         stop_is_None |-> none, step |-> step]

\* the indices slice(start, stop, step) selects on an axis of the given
\* length, in order
slice_indices(sl, length) ==
    LET norm(v, lo, hi) == LET w == IF v < 0 THEN v + length ELSE v
                           IN  IF w < lo THEN lo ELSE IF w > hi THEN hi ELSE w
        start == IF sl.step > 0 THEN norm(sl.start, 0, length)
                 ELSE norm(sl.start, -1, length - 1)
        stop == IF sl.stop_is_None THEN (IF sl.step > 0 THEN length ELSE -1)
                ELSE IF sl.step > 0 THEN norm(sl.stop, 0, length)
                ELSE norm(sl.stop, -1, length - 1)
        n == IF sl.step > 0 THEN (IF stop > start THEN stop - start ELSE 0)
             ELSE (IF start > stop THEN start - stop ELSE 0)
    IN  [k \in 1..n |-> start + (k - 1) * sl.step]

\* tile_img[::-1, ::]
reversed_rows(tile_img) ==
    [r \in 1..Len(tile_img) |-> tile_img[Len(tile_img) - r + 1]]

\* lines 653-686 for one tile: the output after img[img_slice] = tile_img, or
\* the ValueError of an unpacking or of a broadcast that cannot be made
merge_one(img, xs, ys, t) ==
    LET ywhere == where(t.y[1], t.y[Len(t.y)], ys)
        xwhere == where(t.x[1], t.x[Len(t.x)], xs)
    IN  IF Len(ywhere) # 2 \/ Len(xwhere) # 2
        THEN [exc |-> "ValueError", img |-> img]
        ELSE
        LET shape0 == Len(t.img)
            yi0 == IF t.origin = "upper" THEN shape0 - ywhere[1] - 1 ELSE ywhere[1]
            yi1 == IF t.origin = "upper" THEN shape0 - ywhere[2] - 1 ELSE ywhere[2]
            rows == slice_indices(tile_slice(yi0, yi1, Len(ys)), Len(ys))
            cols == slice_indices(tile_slice(xwhere[1], xwhere[2], Len(xs)), Len(xs))
            tile_img == IF t.origin = "lower" THEN reversed_rows(t.img) ELSE t.img
            fits(n, m) == n = m \/ n = 1
        IN  IF ~(fits(Len(tile_img), Len(rows)) /\ fits(Len(tile_img[1]), Len(cols)))
            THEN [exc |-> "ValueError", img |-> img]
            ELSE [exc |-> "none",
                  img |-> [r \in 1..Len(ys) |-> [c \in 1..Len(xs) |->
                     IF /\ \E i \in 1..Len(rows) : rows[i] = r - 1
                        /\ \E j \in 1..Len(cols) : cols[j] = c - 1
                     THEN LET i == CHOOSE i \in 1..Len(rows) : rows[i] = r - 1
                              j == CHOOSE j \in 1..Len(cols) : cols[j] = c - 1
                          IN  tile_img[IF Len(tile_img) = 1 THEN 1 ELSE i]
                                      [IF Len(tile_img[1]) = 1 THEN 1 ELSE j]
                     ELSE img[r][c]]]]

\* the loop of lines 653-686 from tile k on
RECURSIVE merge_loop(_, _, _, _, _)
merge_loop(tiles_, k, img, xs, ys) ==
    IF k > Len(tiles_) THEN [exc |-> "none", img |-> img]
    ELSE LET r == merge_one(img, xs, ys, tiles_[k])
         IN  IF r.exc # "none" THEN r
             ELSE merge_loop(tiles_, k + 1, r.img, xs, ys)

\* lines 640-688: the merge of a list that has a first tile
merge_nonempty(tiles_) ==
    LET xs == sorted(UNION { set(tiles_[k].x) : k \in 1..Len(tiles_) })
        ys == sorted(UNION { set(tiles_[k].y) : k \in 1..Len(tiles_) })
        img == [r \in 1..Len(ys) |-> [c \in 1..Len(xs) |-> Unfilled]]
        r == merge_loop(tiles_, 1, img, xs, ys)
    IN  IF r.exc # "none"
        THEN [exc |-> r.exc, img |-> <<>>, extent |-> <<>>, origin |-> "none"]
        ELSE [exc |-> "none", img |-> r.img,
              extent |-> <<xs[1], xs[Len(xs)], ys[1], ys[Len(ys)]>>,
              origin |-> "lower"]

\* as _merge_tiles, but without the test of lines 637-639: xset[0] of an
\* empty list is an IndexError
_merge_tiles_Unchecked(tiles_) ==
    IF tiles_ = <<>>
    THEN [exc |-> "IndexError", img |-> <<>>, extent |-> <<>>, origin |-> "none"]
    ELSE merge_nonempty(tiles_)

\* _merge_tiles(tiles): what it returns, or the exception it raises
_merge_tiles(tiles_) ==
    IF tiles_ = <<>>
    THEN [exc |-> "ValueError", img |-> <<>>, extent |-> <<>>, origin |-> "none"]
    ELSE merge_nonempty(tiles_)

(***************************************************************************)
(* SpecMerge: one call of _merge_tiles.  The input is a list of distinct   *)
(* subtiles of one tile, each tagged 'lower' (as fetch_tile tags them) or  *)
(* 'upper'; the arrays of each are made as fetch_tile makes them, then     *)
(* the list is merged.                                                     *)
(***************************************************************************)
MaxMergeZ == 1   \* zoom of the tile whose subtiles are merged

Origins == {"lower", "upper"}

MergeParents == UNION { TilesAt(z) : z \in 0..MaxMergeZ }

\* the lists of distinct subtiles of p, each with an origin
MergeInputs(p) ==
    LET kids == subtiles(p)
    IN  UNION { { [k \in 1..n |-> [tile |-> kids[ix[k]], origin |-> og[k]]] :
                    ix \in { f \in [1..n -> 1..Len(kids)] :
                               \A a, b \in 1..n : a # b => f[a] # f[b] },
                    og \in [1..n -> Origins] } : n \in 0..Len(kids) }

InitMerge ==
    /\ inst = <<>>
    /\ dirs = {}
    /\ disk = [f \in {} |-> ""]
    /\ calls = <<>>
    /\ NoQuery
    /\ NoPool
    /\ NoFind
    /\ NoConv
    /\ NoBox
    /\ \E p \in MergeParents : \E todo \in MergeInputs(p) :
          mrg = [pc |-> "fetch", parent |-> p, todo |-> todo, given |-> todo,
                 tiles |-> <<>>,
                 out |-> [exc |-> "none", img |-> <<>>, extent |-> <<>>,
                          origin |-> "none"]]

\* the arrays of the next tile of the list
MergeFetch ==
    /\ mrg.pc = "fetch"
    /\ mrg.todo # <<>>
    /\ mrg' = [mrg EXCEPT
                 !.todo = Tail(@),
                 !.tiles = Append(@, TileArrays(Head(mrg.todo).tile,
                                                Head(mrg.todo).origin))]
    /\ UNCHANGED <<cacheVars, queryVars, poolVars, findVars, conv, box>>

\* _merge_tiles(tiles)
MergeTiles ==
    /\ mrg.pc = "fetch"
    /\ mrg.todo = <<>>
    /\ LET r == _merge_tiles(mrg.tiles)
       IN  mrg' = [mrg EXCEPT !.pc = IF r.exc = "none" THEN "returned" ELSE "raised",
                              !.out = r]
    /\ UNCHANGED <<cacheVars, queryVars, poolVars, findVars, conv, box>>

NextMerge == MergeFetch \/ MergeTiles

SpecMerge == InitMerge /\ [][NextMerge]_vars

(***************************************************************************)
(* Properties of get_image and the cache, under Spec.                      *)
(***************************************************************************)
Done(k) == calls[k].pc = "done"

Cached(i) == inst[i].cache_path # None

\* the network request of call k ended in HTTPError or URLError
FetchFailed(k) == calls[k].fetched /\ calls[k].img = PLACEHOLDER

SameTile(k1, k2) ==
    calls[k1].inst = calls[k2].inst /\ calls[k1].tile = calls[k2].tile

\* calls k1 and k2 are two consecutive finished calls for one tile on one
\* instance that has caching enabled
Consecutive(k1, k2) ==
    /\ k1 < k2
    /\ Done(k1) /\ Done(k2)
    /\ SameTile(k1, k2)
    /\ \A k \in (k1 + 1)..(k2 - 1) : ~SameTile(k1, k)
    /\ Cached(calls[k1].inst)

OneFetch(k1, k2) ==
    /\ calls[k1].fetched /\ calls[k1].save = "ok" /\ calls[k1].added
    /\ calls[k2].known /\ ~calls[k2].fetched

C2_CacheHitOnlyReads ==
    [][\A k \in 1..Len(calls') :
          calls'[k].known =>
              /\ ~calls'[k].fetched /\ ~calls'[k].wrote /\ ~calls'[k].added
              /\ calls'[k].pc \in {"load", "done"}
              /\ (k <= Len(calls) /\ calls[k].known /\ calls'[k] # calls[k])
                    => (inst' = inst /\ disk' = disk /\ dirs' = dirs)]_vars

C2_Witness ==
    \E k \in 1..Len(calls) : Done(k) /\ calls[k].known /\ calls[k].res = "ok"

\* C3 as stated: when the network fetch fails with an HTTP or transport error,
\* get_image does not raise: it returns the 256x256 light-gray placeholder,
\* the tile's bounding box and origin 'lower'.
C3_Original ==
    \A k \in 1..Len(calls) :
        (Done(k) /\ FetchFailed(k)) =>
            /\ calls[k].res = "ok"
            /\ calls[k].ret = <<PLACEHOLDER, tileextent(calls[k].tile), "lower">>

\* C4 as stated: when the network fetch fails and the placeholder is
\* substituted, nothing is written to the cache directory and the key is not
\* added to the index.
C4_Original ==
    \A k \in 1..Len(calls) :
        FetchFailed(k) => (~calls[k].wrote /\ ~calls[k].added)

\* C5 as stated: two instances on one cache path that differ in class or in
\* style never map a tile to the same cached file, and one instance never maps
\* two distinct tiles to the same file.
C5_Original ==
    \A i \in 1..Len(inst), j \in 1..Len(inst) :
        \A t1 \in AllTiles, t2 \in AllTiles :
            /\ ( /\ Cached(i) /\ Cached(j)
                 /\ inst[i].cache_path = inst[j].cache_path
                 /\ (inst[i].cls # inst[j].cls \/ inst[i].style # inst[j].style) )
                  => cached_file(inst[i], t1) # cached_file(inst[j], t2)
            /\ (Cached(i) /\ t1 # t2)
                  => cached_file(inst[i], t1) # cached_file(inst[i], t2)

\* C6: on an instance constructed with cache=False every get_image makes a
\* network fetch, no step of it writes to disk, and the index stays empty.
C6_NoCacheAlwaysFetches ==
    [][/\ \A i \in 1..Len(inst') :
             inst'[i].cache_path = None => inst'[i].cache = {}
       /\ \A k \in 1..Len(calls) :
             (inst[calls[k].inst].cache_path = None /\ calls'[k] # calls[k]) =>
                 /\ disk' = disk /\ dirs' = dirs /\ inst' = inst
                 /\ ~calls'[k].known
                 /\ calls'[k].pc = "done" => calls'[k].fetched]_vars

C6_Witness ==
    \E k \in 1..Len(calls) :
        /\ k + 1 <= Len(calls)
        /\ Done(k) /\ Done(k + 1)
        /\ calls[k].inst = calls[k + 1].inst
        /\ calls[k].tile = calls[k + 1].tile
        /\ ~Cached(calls[k].inst)
        /\ calls[k].fetched /\ calls[k + 1].fetched
        /\ calls[k].res = "ok" /\ calls[k + 1].res = "ok"

\* C7: when np.save fails with a storage error, get_image raises it to its
\* caller and the failed call leaves the index unchanged.
C7_SaveErrorRaises ==
    [][\A k \in 1..Len(calls) :
          (calls'[k].save = "OSError" /\ calls[k].save # "OSError") =>
              /\ calls'[k].pc = "done"
              /\ calls'[k].res = "OSError"
              /\ ~calls'[k].added
              /\ inst' = inst
              /\ filename(inst[calls[k].inst], calls[k].tile)
                    \notin inst'[calls[k].inst].cache]_vars

C7_Witness ==
    \E k \in 1..Len(calls) :
        Done(k) /\ calls[k].save = "OSError" /\ calls[k].res = "OSError"

\* call k1 persisted a tile and call k2 asks for it on another instance of the
\* same class and cache path, constructed after k1 returned
PersistedBefore(k1, k2) ==
    /\ k1 < k2
    /\ calls[k1].save = "ok" /\ Done(k1)
    /\ calls[k1].inst # calls[k2].inst
    /\ inst[calls[k1].inst].cls = inst[calls[k2].inst].cls
    /\ inst[calls[k1].inst].cache_path = inst[calls[k2].inst].cache_path
    /\ inst[calls[k2].inst].born >= k1
    /\ calls[k1].tile = calls[k2].tile

\* C8: a tile persisted by one instance is a cache hit, without a network
\* fetch, for an instance of the same class and cache path constructed later.
C8_CacheSurvivesInstance ==
    \A k1 \in 1..Len(calls), k2 \in 1..Len(calls) :
        (PersistedBefore(k1, k2) /\ calls[k2].pc # "start") =>
            (calls[k2].known /\ ~calls[k2].fetched)

C8_Witness ==
    \E k1 \in 1..Len(calls), k2 \in 1..Len(calls) :
        PersistedBefore(k1, k2) /\ Done(k2) /\ calls[k2].res = "ok"

(***************************************************************************)
(* Properties of image_for_domain, under SpecDomain.                       *)
(***************************************************************************)
\* the fetch phase (lines 86-96) is over without an exception
FetchPhaseOver == qpc \in {"merge", "returned"} \/ result.by = "_merge_tiles"

\* C9 as stated: the fetch phase of image_for_domain never raises for a tile
\* whose get_image fails (I/O error, cache write error, malformed persisted
\* data): that tile is absent from the results and every other tile is there.
C9_Original ==
    /\ result.by # "future.result"
    /\ FetchPhaseOver =>
          /\ Len(calls) = Len(found)
          /\ \A k \in 1..Len(calls) :
                 /\ calls[k].pc = "done"
                 /\ calls[k].res = "ok" =>
                       \E n \in 1..Len(tiles) : tiles[n] = fetch_tile(calls[k])
          /\ Len(tiles) = Cardinality({ k \in 1..Len(calls) : calls[k].res = "ok" })

(***************************************************************************)
(* Properties of the thread pool, under SpecPool.                          *)
(***************************************************************************)
\* C10: in every state of a domain query at most _MAX_THREADS (24) fetches
\* are in flight, however many tiles were found and submitted.
C10_BoundedInFlight == InFlight <= 24 /\ nthreads <= 24

\* 24 fetches in flight while submitted tiles wait in the queue
C10_Witness == InFlight = 24 /\ submitted > started

(***************************************************************************)
(* Properties of the fetch phase and the merge of image_for_domain, under  *)
(* SpecDomain.                                                             *)
(***************************************************************************)
\* _merge_tiles has been entered: line 98 is reached or has ended
MergeStarted == qpc = "merge" \/ result.by = "_merge_tiles"

\* C11: _merge_tiles is invoked only after every fetch the query dispatched
\* has completed: every tile found was submitted and no fetch is in flight
\* when the merge starts, whatever the number of tiles.
C11_MergeAfterAllFetches ==
    MergeStarted =>
        /\ Len(calls) = Len(found)
        /\ \A k \in 1..Len(calls) : calls[k].pc = "done"

\* the merge starts on a query of several tiles, some fetched and some failed
C11_Witness ==
    /\ qpc = "merge"
    /\ Len(calls) = MaxQueryTiles
    /\ \E k \in 1..Len(calls) : calls[k].res = "OSError"
    /\ \E k \in 1..Len(calls) : calls[k].res = "ok" /\ calls[k].fetched

\* C12: for every interleaving of the concurrent fetches of one query, once
\* all of them have finished the index holds the key of every tile that was
\* persisted: no addition is lost.
C12_NoIndexAdditionLost ==
    AllDone =>
        \A k \in 1..Len(calls) :
            calls[k].save = "ok" =>
                filename(inst[calls[k].inst], calls[k].tile)
                    \in inst[calls[k].inst].cache

\* all fetches are over and two workers of the query persisted their tiles
\* and added their keys
C12_Witness ==
    /\ AllDone
    /\ \E j \in 1..Len(calls), k \in 1..Len(calls) :
          /\ j < k
          /\ calls[j].save = "ok" /\ calls[j].added
          /\ calls[k].save = "ok" /\ calls[k].added

\* C13 as stated: a domain query always returns a best-effort mosaic and never
\* raises because tiles failed, also when every tile of the query fails.
C13_Original == result.by # "find_images" => (qpc # "raised" /\ result.exc = "none")

(***************************************************************************)
(* Properties of the quadkey conversions, under SpecQuadkey.               *)
(***************************************************************************)
\* the input is a quadkey of length 1..6 over '0'..'3', or a Cartesian tile
\* with 0 <= x, y < 2^z
ValidConvInput ==
    \/ /\ conv.from = "quadkey"
       /\ Len(conv.input) \in 1..6
       /\ \A k \in 1..Len(conv.input) : conv.input[k] \in QuadDigits
    \/ /\ conv.from = "tms"
       /\ conv.input[1] \in 0..(2 ^ conv.input[3] - 1)
       /\ conv.input[2] \in 0..(2 ^ conv.input[3] - 1)

\* C20: with the same flip flag in both directions the conversions are
\* mutually inverse: a quadkey of length 1..6 over the digits 0-3 converted
\* to a tile and back is the same quadkey, and a Cartesian tile converted to a
\* quadkey and back is the same tile; neither conversion raises on the way.
C20_RoundTrip ==
    ValidConvInput =>
        /\ conv.pc # "raised"
        /\ conv.pc = "done" => conv.out = conv.input

\* a quadkey of length 6 with all four digits went to a tile and back
C20_Witness ==
    /\ conv.pc = "done"
    /\ conv.from = "quadkey"
    /\ ~conv.google
    /\ Len(conv.input) = 6
    /\ { conv.input[k] : k \in 1..6 } = QuadDigits
    /\ conv.out = conv.input

(***************************************************************************)
(* Properties of find_images, under SpecFind.                              *)
(***************************************************************************)
\* the closed boxes a and b, each <<x0, x1, y0, y1>>, share a point
Touches(a, b) ==
    /\ a[1] <= b[2] /\ b[1] <= a[2]
    /\ a[3] <= b[4] /\ b[3] <= a[4]

\* box a lies in the closed box b
Within(a, b) == b[1] <= a[1] /\ a[2] <= b[2] /\ b[3] <= a[3] /\ a[4] <= b[4]

FullExtent == <<-Lim, Lim, -Lim, Lim>>

\* a walk of the Cartesian grid with start_tile left to its default
CartesianDefault == inst[1].cls # "QuadtreeTiles" /\ ~fstart.given

\* tile t is the depth-1 quadrant q or one of its descendants
InSubtree(t, q) ==
    /\ t[3] >= 1
    /\ t[1] \div (2 ^ (t[3] - 1)) = q[1]
    /\ t[2] \div (2 ^ (t[3] - 1)) = q[2]

\* C14: for every domain and target zoom, find_images from the default start
\* ends and has yielded exactly the tiles of the target zoom whose bounding
\* box shares a point with the domain (touching counts), each once; for the
\* full extent and target zoom 2 these are the 16 tiles of zoom 2.
C14_FindYieldsIntersecting ==
    CartesianDefault =>
        /\ fpc # "raised"
        /\ fpc = "done" =>
              LET want == { t \in TilesAt(target_z) : Touches(tileextent(t), domain) }
              IN  /\ { yielded[k] : k \in 1..Len(yielded) } = want
                  /\ Len(yielded) = Cardinality(want)
                  /\ (domain = FullExtent /\ target_z = 2) => Len(yielded) = 16

\* the walk of the full extent to zoom 2 has ended with 16 tiles
C14_Witness ==
    /\ CartesianDefault
    /\ fpc = "done"
    /\ domain = FullExtent /\ target_z = 2
    /\ Len(yielded) = 16

\* C16 as stated: for a domain contained in the bounding box of one depth-1
\* quadrant, find_images at a target zoom >= 1 never yields a tile outside
\* that quadrant's subtree.
C16_Original ==
    \A q \in TilesAt(1) :
        (CartesianDefault /\ target_z >= 1 /\ Within(domain, tileextent(q))) =>
            \A k \in 1..Len(yielded) : InSubtree(yielded[k], q)

\* C16, amended: for a domain contained in the bounding box of one depth-1
\* quadrant and touching no other quadrant's box, find_images at a target
\* zoom >= 1 never yields a tile outside that quadrant's subtree.
C16_PrunedToQuadrant ==
    \A q \in TilesAt(1) :
        ( /\ CartesianDefault /\ target_z >= 1
          /\ Within(domain, tileextent(q))
          /\ \A q2 \in TilesAt(1) \ {q} : ~Touches(domain, tileextent(q2)) ) =>
            \A k \in 1..Len(yielded) : InSubtree(yielded[k], q)

\* a walk to zoom 2 for a domain inside the quadrant (1, 0, 1) has ended with
\* tiles of that quadrant
C16_Witness ==
    /\ CartesianDefault /\ target_z = 2 /\ fpc = "done"
    /\ Within(domain, tileextent(<<1, 0, 1>>))
    /\ \A q2 \in TilesAt(1) \ {<<1, 0, 1>>} : ~Touches(domain, tileextent(q2))
    /\ Len(yielded) >= 2
    /\ \A k \in 1..Len(yielded) : InSubtree(yielded[k], <<1, 0, 1>>)

\* C17 as stated: for every domain, target zoom and valid start tile, whatever
\* the start tile's zoom relative to the target zoom, exhausting the sequence
\* of find_images terminates: the walk never descends without end.
C17_Original == fexc # "RecursionError"

\* the children of tile t in the order NW, NE, SW, SE
ChildrenNWNESWSE(t) ==
    << <<2 * t[1], 2 * t[2], t[3] + 1>>, <<2 * t[1] + 1, 2 * t[2], t[3] + 1>>,
       <<2 * t[1], 2 * t[2] + 1, t[3] + 1>>, <<2 * t[1] + 1, 2 * t[2] + 1, t[3] + 1>> >>

\* the children of tile t in the order NW, SW, NE, SE
ChildrenNWSWNESE(t) ==
    << <<2 * t[1], 2 * t[2], t[3] + 1>>, <<2 * t[1], 2 * t[2] + 1, t[3] + 1>>,
       <<2 * t[1] + 1, 2 * t[2], t[3] + 1>>, <<2 * t[1] + 1, 2 * t[2] + 1, t[3] + 1>> >>

\* the walk descends from the innermost pending tile into its children
Descends == fstack # <<>> /\ Len(fstack') = Len(fstack) + 3

\* C19 as stated: the children of a Cartesian tile (x, y, z) are four tiles of
\* zoom z+1 in the order (2x,2y), (2x+1,2y), (2x,2y+1), (2x+1,2y+1), and the
\* walk descends into them in that order.
C19_Original ==
    [][Descends =>
          [k \in 1..4 |-> fstack'[k].tile] = ChildrenNWNESWSE(Head(fstack).tile)]_vars

\* C19, amended: the children of a Cartesian tile (x, y, z) are four tiles of
\* zoom z+1 in the order (2x,2y), (2x,2y+1), (2x+1,2y), (2x+1,2y+1), and the
\* walk descends into them in that order.
C19_ChildrenOrder ==
    [][Descends =>
          [k \in 1..4 |-> fstack'[k].tile] = ChildrenNWSWNESE(Head(fstack).tile)]_vars

\* the walk has descended into the children of (1, 0, 1), with x # y
C19_Witness ==
    /\ fpc = "run"
    /\ Len(fstack) >= 4
    /\ [k \in 1..4 |-> fstack[k].tile] = ChildrenNWSWNESE(<<1, 0, 1>>)

(***************************************************************************)
(* Properties of repeated find_images invocations, under SpecRestart.      *)
(***************************************************************************)
\* C15: an invocation of find_images reads and writes no shared mutable
\* state: no step of the generator changes the instance, its cache index,
\* the cache directory or a get_image call, and any two invocations with the
\* same domain, target zoom and start tile, wherever they fall in the
\* instance's life, yield the same tiles in the same order.
C15_FindRestartable ==
    [][/\ findVars' # findVars => cacheVars' = cacheVars
       /\ \A i \in 1..Len(runs'), j \in 1..Len(runs') : runs'[i] = runs'[j]]_vars

\* two invocations have ended with the same tiles, and a get_image call on
\* the instance has added a key to the cache index
C15_Witness ==
    /\ Len(runs) = 2
    /\ Len(runs[1]) >= 2
    /\ runs[1] = runs[2]
    /\ inst[1].cache # {}

(***************************************************************************)
(* Properties of a domain query on a QuadtreeTiles instance, under         *)
(* SpecDomain.                                                             *)
(***************************************************************************)
\* C18: find_images of QuadtreeTiles with target zoom 0 raises ValueError
\* without yielding a tile; in a domain query it does so before any fetch is
\* dispatched and before any I/O: no get_image call exists, the disk is
\* untouched, and the query ends raising that ValueError.
C18_QuadkeyZoomZeroFails ==
    (inst[1].cls = "QuadtreeTiles" /\ target_z = 0) =>
        /\ calls = <<>> /\ tiles = <<>>
        /\ disk = NoFiles /\ dirs = {}
        /\ qpc \in {"submit", "unwind", "raised"}
        /\ qpc # "submit" => result = [exc |-> "ValueError", by |-> "find_images"]

\* the query on a QuadtreeTiles instance with target zoom 0 has raised
C18_Witness ==
    /\ inst[1].cls = "QuadtreeTiles" /\ target_z = 0
    /\ qpc = "raised"
    /\ result = [exc |-> "ValueError", by |-> "find_images"]
    /\ calls = <<>>

\* the quadkey_to_tms call on a quadkey input has ended
KeyConverted == conv.from = "quadkey" /\ conv.pc # "start"

\* C21 as stated: the empty quadkey is rejected: quadkey_to_tms, and with it
\* tileextent and find_images with that start tile, fails with an error
\* instead of treating the empty string as a tile.
C21_Original ==
    (KeyConverted /\ conv.input = <<>>) => conv.pc = "raised"

InteriorsMeet(a, b) ==
    /\ a[1] < b[2] /\ b[1] < a[2]
    /\ a[3] < b[4] /\ b[3] < a[4]

Area(a) == (a[2] - a[1]) * (a[4] - a[3])

\* C23: the boxes of a tile's four subtiles tile the tile's box exactly: each
\* lies in it, their interiors are pairwise disjoint, together they have its
\* area (so their union is the box), and the edges they share with each
\* other and with the tile have the same coordinates: the subtiles' x edges
\* are the tile's two x edges and one common middle, and so for y.
C23_ChildrenTileParent ==
    (box.pc = "boxed" /\ box.kids # <<>>) =>
        LET b == box.bbox
            kid == box.kids
            kxs == UNION { {kid[k][1], kid[k][2]} : k \in 1..4 }
            kys == UNION { {kid[k][3], kid[k][4]} : k \in 1..4 }
        IN  /\ \A k \in 1..4 : Within(kid[k], b) /\ Area(kid[k]) > 0
            /\ \A i \in 1..4, j \in 1..4 : i # j => ~InteriorsMeet(kid[i], kid[j])
            /\ Area(kid[1]) + Area(kid[2]) + Area(kid[3]) + Area(kid[4]) = Area(b)
            /\ Cardinality(kxs) = 3 /\ {b[1], b[2]} \subseteq kxs
            /\ Cardinality(kys) = 3 /\ {b[3], b[4]} \subseteq kys

\* the subtiles' extents of a tile that is no corner of its zoom are computed
C23_Witness ==
    /\ box.pc = "boxed" /\ box.kids # <<>>
    /\ box.tile = <<1, 2, 2>>
    /\ box.kids[1][1] = box.bbox[1]
    /\ box.kids[4][2] = box.bbox[2]

\* C24: for every zoom z, every x with 0 <= x < 2^z - 1 and valid y, the east
\* edge x1 of the box of (x, y, z) equals the west edge x0 of the box of
\* (x + 1, y, z).
C24_AdjacentShareEdge ==
    (box.pc = "boxed" /\ box.east # <<>>) => box.bbox[2] = box.east[1]

\* the boxes of a tile in the middle of its row and of its east neighbour
C24_Witness ==
    /\ box.pc = "boxed" /\ box.east # <<>>
    /\ box.tile = <<1, 2, 2>>
    /\ box.bbox[2] = box.east[1]
    /\ box.bbox[1] < box.bbox[2]

(***************************************************************************)
(* Properties of _merge_tiles, under SpecMerge.                            *)
(***************************************************************************)
MergeCalled == mrg.pc \in {"returned", "raised"}

\* C25: _merge_tiles of an empty list raises ValueError and returns nothing:
\* no image, no extent, no origin.
C25_EmptyMergeRaises ==
    (MergeCalled /\ mrg.tiles = <<>>) =>
        /\ mrg.pc = "raised"
        /\ mrg.out.exc = "ValueError"
        /\ mrg.out.img = <<>>
        /\ mrg.out.extent = <<>>
        /\ mrg.out.origin = "none"

C25_Witness == mrg.pc = "raised" /\ mrg.given = <<>>

GlobalXs == UNION { set(mrg.tiles[k].x) : k \in 1..Len(mrg.tiles) }
GlobalYs == UNION { set(mrg.tiles[k].y) : k \in 1..Len(mrg.tiles) }
SetMin(S) == CHOOSE v \in S : \A u \in S : v <= u
SetMax(S) == CHOOSE v \in S : \A u \in S : v >= u

\* what C26 says of the merge of the tiles of mrg.tiles
ExtentOriginShape ==
    /\ mrg.pc = "returned"
    /\ mrg.out.extent = <<SetMin(GlobalXs), SetMax(GlobalXs),
                          SetMin(GlobalYs), SetMax(GlobalYs)>>
    /\ mrg.out.origin = "lower"
    /\ Len(mrg.out.img) = Cardinality(GlobalYs)
    /\ \A r \in 1..Len(mrg.out.img) :
          Len(mrg.out.img[r]) = Cardinality(GlobalXs)

\* C26: the merge of every non-empty list returns the extent (min xs, max xs,
\* min ys, max ys) of the union of the tiles' coordinates, origin 'lower'
\* whatever the tiles' origins, and an image of |ys| rows and |xs| columns.
C26_Original == (MergeCalled /\ mrg.tiles # <<>>) => ExtentOriginShape

\* C27: the merge of a single tile, tagged 'lower' as fetch_tile tags it,
\* returns the tile's image, same rows in the same order and same columns,
\* and the tile's own bounding box as extent.
C27_Original ==
    (MergeCalled /\ Len(mrg.tiles) = 1 /\ mrg.tiles[1].origin = "lower") =>
        /\ mrg.pc = "returned"
        /\ mrg.out.img = mrg.tiles[1].img
        /\ mrg.out.extent = tileextent(mrg.given[1].tile)

AllLower == \A k \in 1..Len(mrg.tiles) : mrg.tiles[k].origin = "lower"

\* C28: the merge of the fetched images of all four subtiles of a tile, in
\* any order, returns the tile's bounding box as extent and an image of the
\* size of the global axes in which every pixel was written by a subtile.
C28_ChildrenCoverParent ==
    (MergeCalled /\ Len(mrg.tiles) = 4 /\ AllLower) =>
        /\ mrg.pc = "returned"
        /\ mrg.out.extent = tileextent(mrg.parent)
        /\ Len(mrg.out.img) = Cardinality(GlobalYs)
        /\ \A r \in 1..Len(mrg.out.img) :
              /\ Len(mrg.out.img[r]) = Cardinality(GlobalXs)
              /\ \A c \in 1..Len(mrg.out.img[r]) : mrg.out.img[r][c] # Unfilled

C28_Witness ==
    /\ mrg.pc = "returned"
    /\ Len(mrg.tiles) = 4
    /\ AllLower
    /\ mrg.parent[3] = MaxMergeZ
    /\ mrg.given[1].tile # subtiles(mrg.parent)[1]

Reorderings(n) ==
    { f \in [1..n -> 1..n] : \A a, b \in 1..n : a # b => f[a] # f[b] }

\* C29: for every list of fetched tiles of one zoom sharing boundary
\* coordinates and every permutation of it, the merge of the permuted list is
\* the merge of the list: same image, same extent, same origin.
C29_Original ==
    (MergeCalled /\ AllLower) =>
        \A p \in Reorderings(Len(mrg.tiles)) :
            _merge_tiles([k \in 1..Len(mrg.tiles) |-> mrg.tiles[p[k]]]) = mrg.out

\* the index of v on the sorted axis of the coordinates S, from 0
AxisIndex(v, S) == Cardinality({ u \in S : u < v })

\* C30: after a merge that returns, the image of an input tile (here the last
\* of the list, which no later tile overwrites) is found in the output at the
\* rows and columns from the index of its first coordinate on the global
\* axes, its rows reversed if the tile is tagged 'upper' and as they are if
\* it is tagged 'lower'.
C30_Original ==
    mrg.pc = "returned" =>
        LET t == mrg.tiles[Len(mrg.tiles)]
            src == IF t.origin = "upper" THEN reversed_rows(t.img) ELSE t.img
            iy0 == AxisIndex(SetMin(set(t.y)), GlobalYs)
            ix0 == AxisIndex(SetMin(set(t.x)), GlobalXs)
        IN  \A i \in 1..Len(src) : \A j \in 1..Len(src[i]) :
                mrg.out.img[iy0 + i][ix0 + j] = src[i][j]

(***************************************************************************)
(* Properties of the index and the cache directory, under Spec.            *)
(***************************************************************************)
\* the file of the cache directory of instance i that the key f names
KeyFile(i, f) == <<_cache_dir(inst[i]), f>>

\* C31: with a cache directory that only the program writes to, every key of
\* the index of every instance names a file of its cache directory that was
\* written completely.
C31_Original ==
    \A i \in 1..Len(inst) :
        Cached(i) =>
            \A f \in inst[i].cache :
                /\ KeyFile(i, f) \in DOMAIN disk
                /\ disk[KeyFile(i, f)] # "partial"

\* the second half of C31: no step removes a key from the index of an
\* instance
C31_IndexOnlyGrows ==
    [][\A i \in 1..Len(inst) : inst[i].cache \subseteq inst'[i].cache]_vars

(***************************************************************************)
(* Properties of the tile indices of a walk, under SpecFind.               *)
(***************************************************************************)
\* the start tile of the walk as a Cartesian tile, where it has one
StartIsValid ==
    inst[1].cls # "QuadtreeTiles" =>
        tile_bbox_asserts(fstart.tile[1], fstart.tile[2], fstart.tile[3])

\* C32: in a walk started from a valid tile, every tile of a pending
\* _find_images call (every tile whose bounding box is computed) has
\* 0 <= x, y <= 2^z - 1, and the walk never ends in an AssertionError of
\* tile_bbox.
C32_TileIndicesInRange ==
    StartIsValid =>
        /\ fexc # "AssertionError"
        /\ \A k \in 1..Len(fstack) :
              LET t == fstack[k].tile
              IN  tile_bbox_asserts(t[1], t[2], t[3])

\* the walk is about to compute the box of the last tile of zoom MaxFindZ,
\* reached through subtiles
C32_Witness ==
    /\ fpc = "run"
    /\ StartIsValid
    /\ fstack # <<>>
    /\ Head(fstack).depth > 1
    /\ Head(fstack).tile = <<2 ^ MaxFindZ - 1, 2 ^ MaxFindZ - 1, MaxFindZ>>

(***************************************************************************)
(* QuadtreeTiles.find_images against GoogleWTS.find_images, under          *)
(* SpecFind.                                                               *)
(***************************************************************************)
\* a walk of QuadtreeTiles.find_images with start_tile left out
QuadkeyDefault == inst[1].cls = "QuadtreeTiles" /\ ~fstart.given

\* the tiles find_images of a GoogleWTS yields from the root for the domain
\* and the target zoom of the walk
CartesianFound ==
    LET t == find_images(domain, target_z)
    IN  { t[k] : k \in 1..Len(t) }

\* C33: for a target zoom >= 1, QuadtreeTiles.find_images from its default
\* start tiles ends without an error and has yielded quadkeys of length
\* target_z, none twice, that name exactly the tiles GoogleWTS.find_images
\* yields from the root for the same domain and zoom.
C33_QuadkeyFindsSameTiles ==
    (QuadkeyDefault /\ target_z >= 1 /\ fpc \in {"done", "raised"}) =>
        /\ fpc = "done"
        /\ \A k \in 1..Len(yielded) : Len(yielded[k]) = target_z
        /\ \A a, b \in 1..Len(yielded) : a # b => yielded[a] # yielded[b]
        /\ { quadkey_to_tms(yielded[k], TRUE).tms : k \in 1..Len(yielded) }
              = CartesianFound

\* a finished walk at the deepest zoom over a domain that meets some tiles
\* of the zoom and misses others, in more than one quadrant
C33_Witness ==
    /\ QuadkeyDefault
    /\ fpc = "done"
    /\ target_z = MaxFindZ
    /\ Len(yielded) > 4
    /\ Len(yielded) < Cardinality(TilesAt(MaxFindZ))
    /\ \E a, b \in 1..Len(yielded) : yielded[a][1] # yielded[b][1]
====
